---- MODULE Spec2Model ----
(***************************************************************************)
(* Model of pytorch_tools.fit_wrapper.wrapper.Runner: the fit / evaluate   *)
(* driver, its inner epoch loop and its single step, together with the     *)
(* run state it mutates, the meters it updates and the lifecycle events    *)
(* it broadcasts to the callbacks.                                         *)
(*                                                                         *)
(* One Runner receives one call (fit or evaluate) per behaviour.  The      *)
(* call is cut into steps at the points where foreign code (a callback     *)
(* hook, the model, the criterion, the optimizer, a metric) runs, so that  *)
(* what a hook observes and what a raise leaves behind are states of the   *)
(* model.  The model is a deterministic function of the batch and of the   *)
(* number of optimizer steps applied; hooks and collaborators may raise.   *)
(***************************************************************************)
EXTENDS Integers, Sequences, FiniteSets, TLC

\* ------------------------------------------------------------------ bounds
MaxEpochs == 2
MaxLen == 2
MaxSteps == 1
NumMetrics == 2
MaxOutput == 2
NumCallbacks == 2
MaxFeature == 2

\* Python's None, for the optional integer arguments and the unset fields.
None == -1

\* ------------------------------------------------------------ data sources
\* A data source yields n batches; it may or may not expose len().
Loaders ==
    {[hasLen |-> TRUE, n |-> k] : k \in 0..MaxLen} \cup {[hasLen |-> FALSE, n |-> MaxLen]}
NoLoader == [hasLen |-> FALSE, n |-> None]
StepArgs == {None} \cup (0..MaxSteps)
\* The callbacks a Runner is built with: hooks that leave is_train alone, or
\* hooks that each assign state.is_train = True, or = False.
CallbackKinds == {"passive", "sets_train", "sets_eval"}

\* ------------------------------------------------------------------ meters
RECURSIVE Gcd(_, _)
Gcd(a, b) == IF b = 0 THEN a ELSE Gcd(b, a % b)

\* The quotient s / c as a reduced fraction <<numerator, denominator>>.
Div(s, c) == LET g == Gcd(s, c) IN IF g = 0 THEN <<0, 1>> ELSE <<s \div g, c \div g>>

NewMeter == [sum |-> 0, count |-> 0, avg |-> <<0, 1>>]

MeterReset(m) == [sum |-> 0, count |-> 0, avg |-> <<0, 1>>]

MeterUpdate(m, v) ==
    [sum |-> m.sum + v, count |-> m.count + 1, avg |-> Div(m.sum + v, m.count + 1)]

\* The meters of the run state live at fixed addresses of the object heap.
loss_meter == 1
metric_meters == [j \in 1..NumMetrics |-> 1 + j]
MeterIds == {loss_meter} \cup {metric_meters[j] : j \in 1..NumMetrics}

\* model(images): what the model returns for the batch-th batch of a source
\* after w optimizer steps; a value in 1..MaxOutput.
Output(batch, w) == 1 + ((batch + w) % MaxOutput)

\* criterion(output, target) and metric_j(output, target), made host scalars.
LossValue(out) == out
MetricValue(j, out) == j * out + 1

\* ------------------------------------------------------------ object heap
\* copy(obj): a new object holding the same field values.
NewId(h) == CHOOSE i \in 1..(Cardinality(DOMAIN h) + 1) : i \notin DOMAIN h

copy_alias(h, src) == [heap |-> h, ref |-> src]
copy(h, src) == LET id == NewId(h) IN [heap |-> h @@ (id :> h[src]), ref |-> id]

\* [copy(m) for m in metric_meters], left to right from index j.
CopyMeters_alias(h, j) == [heap |-> h, refs |-> metric_meters]
RECURSIVE CopyMeters(_, _)
CopyMeters(h, j) ==
    IF j > NumMetrics THEN [heap |-> h, refs |-> << >>]
    ELSE LET c == copy(h, metric_meters[j])
             r == CopyMeters(c.heap, j + 1)
         IN [heap |-> r.heap, refs |-> <<c.ref>> \o r.refs]

\* -------------------------------------------------------------- variables
VARIABLES
    \* RunnerState
    is_train, epoch, num_epochs, step, ep_size, verbose,
    train_loss, train_metrics, val_loss, val_metrics,
    heap,           \* object id -> meter fields (loss meter, metric meters, copies)
    modelMode,      \* "train" / "eval": model.train(), model.eval()
    \* process-wide
    gradEnabled,    \* torch.is_grad_enabled()
    cbKind,         \* what the registered callbacks' hooks do to is_train
    weights,        \* optimizer steps applied to the model so far
    \* the call in progress
    pc, call, args, loopEpoch, pass, iter, savedGrad, loopMode, outcome, retval,
    \* what the collaborators observed
    trace,          \* lifecycle events broadcast in this call, in order
    stepOps,        \* operations of the latest _make_step, in order
    passOutputs,    \* model outputs of the batches stepped in the current pass
    snapLog,        \* snapshots written: object, fields at the time, epoch
    iterated,       \* iter(loader) was taken in the current pass
    hookWrote,      \* a hook assigned is_train after the driver last did
    grad0,          \* gradEnabled when the Runner was constructed
    \* the dispatcher
    callbacks,      \* registered callbacks in order: the hooks each implements
    injected,       \* calls of callbacks.set_state(state) so far
    hookCalls,      \* callbacks whose hook the latest broadcast called, in order
    raisedIn,       \* where the exception that ended the call was raised
    \* segmentation_models.unet
    unet            \* one UnetDecoder and the forward pass it ran

vars == <<is_train, epoch, num_epochs, step, ep_size, verbose,
          train_loss, train_metrics, val_loss, val_metrics, heap, modelMode,
          gradEnabled, cbKind, weights, pc, call, args, loopEpoch, pass, iter,
          savedGrad, loopMode, outcome, retval, trace, stepOps, passOutputs,
          snapLog, iterated, hookWrote, grad0, callbacks, injected, hookCalls,
          raisedIn, unet>>

NoArgs == [loader |-> NoLoader, steps |-> None, val_loader |-> NoLoader,
           val_steps |-> None, epochs |-> 0, start_epoch |-> 0]

\* The six lifecycle hooks a callback may implement.
AllHooks == {"on_train_begin", "on_epoch_begin", "on_batch_begin",
             "on_batch_end", "on_epoch_end", "on_train_end"}
EpochHooks == {"on_epoch_begin", "on_epoch_end"}

\* self.callbacks.set_state(self.state): one more injection of the run state.
SetState_skip(n) == n
SetState(n) == n + 1

\* No decoder is in use while the Runner is exercised.
NoUnet == [center |-> FALSE, head |-> None, skips |-> << >>,
           encoder_head |-> None, layer1_in |-> << >>, at |-> "none"]

\* Runner.__init__ once the environment is fixed: the run state, then the
\* dispatcher, which receives the run state.
Construct ==
    /\ epoch = None /\ num_epochs = None /\ step = None /\ ep_size = None
    /\ train_loss = None /\ train_metrics = << >>
    /\ val_loss = None /\ val_metrics = << >>
    /\ heap = [i \in MeterIds |-> NewMeter]
    /\ modelMode = "train"
    /\ grad0 = gradEnabled
    /\ injected = SetState(0)
    /\ hookCalls = << >>
    /\ raisedIn = "none"
    /\ weights = 0
    /\ pc = "idle" /\ call = "none" /\ args = NoArgs
    /\ loopEpoch = 0 /\ pass = "none" /\ iter = 0
    /\ savedGrad = gradEnabled /\ loopMode = FALSE
    /\ outcome = "none" /\ retval = << >>
    /\ trace = << >> /\ stepOps = << >> /\ passOutputs = << >>
    /\ snapLog = {} /\ iterated = FALSE /\ hookWrote = FALSE

\* A Runner with one callback that implements every hook.
Init ==
    /\ is_train \in BOOLEAN
    /\ verbose \in BOOLEAN
    /\ gradEnabled \in BOOLEAN
    /\ cbKind \in CallbackKinds
    /\ callbacks = <<AllHooks>>
    /\ unet = NoUnet
    /\ Construct

\* ---------------------------------------------------------------- raising
\* __exit__ of torch.set_grad_enabled: the flag saved on entry comes back.
GradOnExit_leak(raised) == IF raised THEN gradEnabled ELSE savedGrad
GradOnExit(raised) == savedGrad

\* An exception leaves the call; inLoop: it unwinds through the with block.
Raise_retry(inLoop) ==
    /\ pc' = pc
    /\ outcome' = "error"
    /\ gradEnabled' = gradEnabled
Raise(inLoop) ==
    /\ pc' = "done"
    /\ outcome' = "error"
    /\ gradEnabled' = IF inLoop THEN GradOnExit(TRUE) ELSE gradEnabled

\* ------------------------------------------------------------- dispatcher
HookEffects == {"return", "raise"}

Event(name, ep, st) == [ev |-> name, epoch |-> ep, step |-> st, pass |-> pass]

\* The registered callbacks that implement the hook, in registration order.
Implementers(name) ==
    SelectSeq([i \in 1..Len(callbacks) |-> i], LAMBDA i : name \in callbacks[i])

\* callbacks.on_<name>(): the event reaches the callbacks that implement the
\* hook, in order; they see epoch ep, step st and is_train it0. Every hook
\* returns, after what its kind of callback does to is_train, or the k-th one
\* raises and the later ones are not called.
Broadcast(name, ep, st, it0, driverWrote, inLoop, okPc, okOutcome) ==
    LET imps == Implementers(name) IN
    /\ trace' = Append(trace, Event(name, ep, st))
    /\ \E eff \in HookEffects, k \in 1..(IF imps = << >> THEN 1 ELSE Len(imps)) :
        LET returned == IF eff = "raise" THEN k - 1 ELSE Len(imps) IN
        /\ eff = "raise" => imps # << >>
        /\ hookCalls' = IF eff = "raise" THEN SubSeq(imps, 1, k) ELSE imps
        /\ is_train' = CASE returned > 0 /\ cbKind = "sets_train" -> TRUE
                         [] returned > 0 /\ cbKind = "sets_eval" -> FALSE
                         [] OTHER -> it0
        /\ hookWrote' = IF returned > 0 /\ cbKind # "passive" THEN TRUE
                        ELSE IF driverWrote THEN FALSE ELSE hookWrote
        /\ IF eff = "raise"
           THEN /\ Raise(inLoop)
                /\ raisedIn' = "hook"
           ELSE /\ pc' = okPc
                /\ outcome' = okOutcome
                /\ raisedIn' = raisedIn
                /\ gradEnabled' = gradEnabled

\* --------------------------------------------------------- inner epoch loop
\* Python truth value of the steps argument: None and 0 are false.
Truthy(steps) == steps # None /\ steps # 0

\* steps or len(loader); len() of a source without __len__ raises TypeError.
LenRaises_never(loader, steps) == FALSE
LenRaises(loader, steps) == ~Truthy(steps) /\ ~loader.hasLen
EpSize(loader, steps) == IF Truthy(steps) THEN steps ELSE loader.n

\* if hasattr(tqdm._instances): hasattr() takes two arguments, so the verbose
\* branch raises TypeError before the progress bar exists.
VerboseRaises == verbose

\* loss_meter.reset() and metric.reset() for every metric meter.
ResetMeters_none(h) == h
ResetMeters(h) == [i \in DOMAIN h |-> IF i \in MeterIds THEN MeterReset(h[i]) ELSE h[i]]

\* _run_one_epoch up to the first fetch from the source, for the pass p run
\* with is_train = mode.
EnterLoop(loader, steps, mode, p) ==
    /\ heap' = ResetMeters(heap)
    /\ pass' = p
    /\ stepOps' = << >>
    /\ passOutputs' = << >>
    /\ IF LenRaises(loader, steps)
       THEN /\ Raise(FALSE)
            /\ raisedIn' = "len"
            /\ UNCHANGED <<ep_size, savedGrad, loopMode, iter>>
            /\ iterated' = FALSE
       ELSE /\ ep_size' = EpSize(loader, steps)
            /\ IF VerboseRaises
               THEN /\ Raise(FALSE)
                    /\ raisedIn' = "verbose"
                    /\ UNCHANGED <<savedGrad, loopMode, iter>>
                    /\ iterated' = FALSE
               ELSE /\ iterated' = TRUE
                    /\ iter' = 0
                    /\ savedGrad' = gradEnabled
                    /\ loopMode' = mode
                    /\ gradEnabled' = mode
                    /\ pc' = "loop"
                    /\ outcome' = outcome
                    /\ raisedIn' = raisedIn

\* The source and step cap of the pass in progress.
PassLoader == IF call = "fit" /\ pass = "val" THEN args.val_loader ELSE args.loader
PassSteps == IF call = "fit" /\ pass = "val" THEN args.val_steps ELSE args.steps

\* The iterator of enumerate(loader) has a next batch.
HasNext == iter < PassLoader.n

InLoop == pc \in {"loop", "make_step", "on_batch_end"}

\* for i, batch in pbar: state.step = i; callbacks.on_batch_begin()
BatchBegin ==
    /\ pc = "loop" /\ HasNext
    /\ step' = iter
    /\ Broadcast("on_batch_begin", epoch, iter, is_train, FALSE, TRUE, "make_step", outcome)
    /\ UNCHANGED <<epoch, num_epochs, ep_size, verbose, train_loss,
                   train_metrics, val_loss, val_metrics, heap, modelMode,
                   cbKind, callbacks, injected, unet, weights, call, args,
                   loopEpoch, pass, iter, savedGrad, loopMode, retval, stepOps,
                   passOutputs, snapLog, iterated, grad0>>

\* callbacks.on_batch_end(), then the loop asks for the next batch.
BatchEnd_silent ==
    /\ pc = "on_batch_end"
    /\ pc' = "loop"
    /\ iter' = iter + 1
    /\ UNCHANGED <<is_train, epoch, num_epochs, step, ep_size, verbose,
                   train_loss, train_metrics, val_loss, val_metrics, heap,
                   modelMode, gradEnabled, cbKind, callbacks, injected, unet,
                   weights, call, args, loopEpoch, pass, savedGrad, loopMode,
                   outcome, raisedIn, retval, trace, hookCalls, stepOps,
                   passOutputs, snapLog, iterated, hookWrote, grad0>>
BatchEnd ==
    /\ pc = "on_batch_end"
    /\ Broadcast("on_batch_end", epoch, step, is_train, FALSE, TRUE, "loop", outcome)
    /\ iter' = iter + 1
    /\ UNCHANGED <<epoch, num_epochs, step, ep_size, verbose, train_loss,
                   train_metrics, val_loss, val_metrics, heap, modelMode,
                   cbKind, callbacks, injected, unet, weights, call, args,
                   loopEpoch, pass, savedGrad, loopMode, retval, stepOps,
                   passOutputs, snapLog, iterated, grad0>>

\* The source is exhausted: the with block exits and _run_one_epoch returns.
LoopExit ==
    /\ pc = "loop" /\ ~HasNext
    /\ gradEnabled' = GradOnExit(FALSE)
    /\ pc' = IF pass = "train" THEN "snap_train" ELSE "eval_return"
    /\ pass' = "none"
    /\ UNCHANGED <<is_train, epoch, num_epochs, step, ep_size, verbose,
                   train_loss, train_metrics, val_loss, val_metrics, heap,
                   modelMode, cbKind, callbacks, injected, unet, weights, call,
                   args, loopEpoch, iter, savedGrad, loopMode, outcome,
                   raisedIn, retval, trace, hookCalls, stepOps, passOutputs,
                   snapLog, iterated, hookWrote, grad0>>

\* ------------------------------------------------------------- single step
Op(name) == [op |-> name, j |-> 0]

\* for metric, meter in zip(metrics, metric_meters): meter.update(metric(...))
MetricOps_none(j) == << >>
RECURSIVE MetricOps(_)
MetricOps(j) ==
    IF j > NumMetrics THEN << >>
    ELSE <<[op |-> "metric", j |-> j], [op |-> "meter_update", j |-> j]>> \o MetricOps(j + 1)

TrainOps_stepFirst ==
    <<Op("zero_grad"), Op("optimizer_step"), Op("scale_enter"), Op("backward"),
      Op("scale_exit"), Op("synchronize")>>
TrainOps ==
    <<Op("zero_grad"), Op("scale_enter"), Op("backward"), Op("scale_exit"),
      Op("optimizer_step"), Op("synchronize")>>

\* The operations of _make_step in program order, for is_train = train.
StepOps_always(train) ==
    <<Op("forward"), Op("criterion")>> \o TrainOps \o <<Op("loss_update")>> \o MetricOps(1)
StepOps(train) ==
    <<Op("forward"), Op("criterion")>>
        \o (IF train THEN TrainOps ELSE << >>)
        \o <<Op("loss_update")>> \o MetricOps(1)

\* Calls into the model, the criterion, amp, the optimizer, the device and the
\* metrics: each may raise.
RaisingOps ==
    {"forward", "criterion", "zero_grad", "scale_enter", "backward",
     "optimizer_step", "synchronize", "metric"}

OptimizerOps == {"zero_grad", "optimizer_step"}

\* The meters after the operations ops of a step whose model output is out.
RECURSIVE ApplyOps(_, _, _)
ApplyOps(h, ops, out) ==
    IF ops = << >> THEN h
    ELSE LET o == Head(ops)
             h1 == CASE o.op = "loss_update" ->
                           [h EXCEPT ![loss_meter] = MeterUpdate(@, LossValue(out))]
                      [] o.op = "meter_update" ->
                           [h EXCEPT ![metric_meters[o.j]] = MeterUpdate(@, MetricValue(o.j, out))]
                      [] OTHER -> h
         IN ApplyOps(h1, Tail(ops), out)

\* self._make_step(batch): runs to its end, or up to the operation that raises.
MakeStep ==
    /\ pc = "make_step"
    /\ LET out == Output(iter, weights)
           full == StepOps(is_train)
       IN
       \E k \in 0..Len(full) :
          LET done == SubSeq(full, 1, k) IN
          /\ k < Len(full) => full[k + 1].op \in RaisingOps
          /\ heap' = ApplyOps(heap, done, out)
          /\ weights' = IF \E i \in 1..k : done[i].op = "optimizer_step"
                        THEN weights + 1 ELSE weights
          /\ stepOps' = done
          /\ IF k = Len(full)
             THEN /\ passOutputs' = Append(passOutputs, out)
                  /\ pc' = "on_batch_end"
                  /\ UNCHANGED <<outcome, raisedIn, gradEnabled>>
             ELSE /\ passOutputs' = passOutputs
                  /\ Raise(TRUE)
                  /\ raisedIn' = "step"
    /\ UNCHANGED <<is_train, epoch, num_epochs, step, ep_size, verbose,
                   train_loss, train_metrics, val_loss, val_metrics, modelMode,
                   cbKind, callbacks, injected, unet, call, args, loopEpoch,
                   pass, iter, savedGrad, loopMode, retval, trace, hookCalls,
                   snapLog, iterated, hookWrote, grad0>>

\* ----------------------------------------------------------------- evaluate
\* evaluate(loader, steps) up to the first fetch from the source.
EvaluateEnter_keepsMode(loader, steps) ==
    /\ is_train' = is_train
    /\ hookWrote' = FALSE
    /\ modelMode' = "eval"
    /\ EnterLoop(loader, steps, is_train, "val")
EvaluateEnter(loader, steps) ==
    /\ is_train' = FALSE
    /\ hookWrote' = FALSE
    /\ modelMode' = "eval"
    /\ EnterLoop(loader, steps, FALSE, "val")

\* A caller invokes runner.evaluate(loader, steps).
EvaluateCall(loader, steps) ==
    /\ pc = "idle"
    /\ call' = "evaluate"
    /\ args' = [NoArgs EXCEPT !.loader = loader, !.steps = steps]
    /\ EvaluateEnter(loader, steps)
    /\ UNCHANGED <<epoch, num_epochs, step, verbose, train_loss, train_metrics,
                   val_loss, val_metrics, cbKind, callbacks, injected, unet,
                   weights, loopEpoch, retval, trace, hookCalls, snapLog, grad0>>

\* loss_meter.avg, [m.avg for m in metric_meters]
EvalResult(h) == <<h[loss_meter].avg, [j \in 1..NumMetrics |-> h[metric_meters[j]].avg]>>

\* One snapshot object as the log keeps it.
Snap(kind, h, ref) == [kind |-> kind, epoch |-> epoch, ref |-> ref, val |-> h[ref]]

\* evaluate returns; inside fit the validation snapshots follow.
EvaluateReturn ==
    /\ pc = "eval_return"
    /\ retval' = EvalResult(heap)
    /\ IF call = "fit"
       THEN LET c == copy(heap, loss_meter)
                m == CopyMeters(c.heap, 1)
            IN /\ heap' = m.heap
               /\ val_loss' = c.ref
               /\ val_metrics' = m.refs
               /\ snapLog' = snapLog \cup {Snap("val_loss", m.heap, c.ref)}
                     \cup {Snap("val_metrics", m.heap, m.refs[j]) : j \in 1..NumMetrics}
               /\ pc' = "on_epoch_end"
               /\ outcome' = outcome
       ELSE /\ pc' = "done"
            /\ outcome' = "ok"
            /\ UNCHANGED <<heap, val_loss, val_metrics, snapLog>>
    /\ UNCHANGED <<is_train, epoch, num_epochs, step, ep_size, verbose,
                   train_loss, train_metrics, modelMode, gradEnabled, cbKind,
                   callbacks, injected, unet, weights, call, args, loopEpoch,
                   pass, iter, savedGrad, loopMode, raisedIn, trace, hookCalls,
                   stepOps, passOutputs, iterated, hookWrote, grad0>>

\* ---------------------------------------------------------------------- fit
\* A caller invokes runner.fit(...): num_epochs is recorded and on_train_begin
\* is broadcast.
FitCall(loader, steps, val_loader, val_steps, epochs, start_epoch) ==
    /\ pc = "idle"
    /\ call' = "fit"
    /\ args' = [loader |-> loader, steps |-> steps, val_loader |-> val_loader,
                val_steps |-> val_steps, epochs |-> epochs, start_epoch |-> start_epoch]
    /\ num_epochs' = epochs
    /\ loopEpoch' = start_epoch
    /\ Broadcast("on_train_begin", epoch, step, is_train, FALSE, FALSE, "epoch_loop", outcome)
    /\ UNCHANGED <<epoch, step, ep_size, verbose, train_loss, train_metrics,
                   val_loss, val_metrics, heap, modelMode, cbKind, callbacks,
                   injected, unet, weights, pass, iter, savedGrad, loopMode,
                   retval, stepOps, passOutputs, snapLog, iterated, grad0>>

\* for epoch in range(start_epoch, epochs): is_train = True; state.epoch = epoch;
\* callbacks.on_epoch_begin()
FitEpochBegin_stuck ==
    /\ pc = "epoch_loop" /\ loopEpoch < args.epochs
    /\ epoch' = args.start_epoch
    /\ Broadcast("on_epoch_begin", args.start_epoch, step, TRUE, TRUE, FALSE, "train_pass", outcome)
    /\ UNCHANGED <<num_epochs, step, ep_size, verbose, train_loss,
                   train_metrics, val_loss, val_metrics, heap, modelMode,
                   cbKind, callbacks, injected, unet, weights, call, args,
                   loopEpoch, pass, iter, savedGrad, loopMode, retval, stepOps,
                   passOutputs, snapLog, iterated, grad0>>
FitEpochBegin ==
    /\ pc = "epoch_loop" /\ loopEpoch < args.epochs
    /\ epoch' = loopEpoch
    /\ Broadcast("on_epoch_begin", loopEpoch, step, TRUE, TRUE, FALSE, "train_pass", outcome)
    /\ UNCHANGED <<num_epochs, step, ep_size, verbose, train_loss,
                   train_metrics, val_loss, val_metrics, heap, modelMode,
                   cbKind, callbacks, injected, unet, weights, call, args,
                   loopEpoch, pass, iter, savedGrad, loopMode, retval, stepOps,
                   passOutputs, snapLog, iterated, grad0>>

\* model.train(); self._run_one_epoch(train_loader, steps=steps_per_epoch)
FitTrainPass ==
    /\ pc = "train_pass"
    /\ modelMode' = "train"
    /\ EnterLoop(args.loader, args.steps, is_train, "train")
    /\ UNCHANGED <<is_train, epoch, num_epochs, step, verbose, train_loss,
                   train_metrics, val_loss, val_metrics, cbKind, callbacks,
                   injected, unet, weights, call, args, loopEpoch, retval,
                   trace, hookCalls, snapLog, hookWrote, grad0>>

\* train_loss = copy(loss_meter); train_metrics = [copy(m) ...]; then the test
\* of val_loader.
FitSnapshotTrain ==
    /\ pc = "snap_train"
    /\ LET c == copy(heap, loss_meter)
           m == CopyMeters(c.heap, 1)
       IN /\ heap' = m.heap
          /\ train_loss' = c.ref
          /\ train_metrics' = m.refs
          /\ snapLog' = snapLog \cup {Snap("train_loss", m.heap, c.ref)}
                \cup {Snap("train_metrics", m.heap, m.refs[j]) : j \in 1..NumMetrics}
    /\ pc' = IF args.val_loader # NoLoader THEN "validate" ELSE "on_epoch_end"
    /\ UNCHANGED <<is_train, epoch, num_epochs, step, ep_size, verbose,
                   val_loss, val_metrics, modelMode, gradEnabled, cbKind,
                   callbacks, injected, unet, weights, call, args, loopEpoch,
                   pass, iter, savedGrad, loopMode, outcome, raisedIn, retval,
                   trace, hookCalls, stepOps, passOutputs, iterated, hookWrote,
                   grad0>>

\* self.evaluate(val_loader, steps=val_steps)
FitValidate ==
    /\ pc = "validate"
    /\ EvaluateEnter(args.val_loader, args.val_steps)
    /\ UNCHANGED <<epoch, num_epochs, step, verbose, train_loss, train_metrics,
                   val_loss, val_metrics, cbKind, callbacks, injected, unet,
                   weights, call, args, loopEpoch, retval, trace, hookCalls,
                   snapLog, grad0>>

\* callbacks.on_epoch_end(), then the range yields the next epoch index.
FitEpochEnd ==
    /\ pc = "on_epoch_end"
    /\ Broadcast("on_epoch_end", epoch, step, is_train, FALSE, FALSE, "epoch_loop", outcome)
    /\ loopEpoch' = loopEpoch + 1
    /\ UNCHANGED <<epoch, num_epochs, step, ep_size, verbose, train_loss,
                   train_metrics, val_loss, val_metrics, heap, modelMode,
                   cbKind, callbacks, injected, unet, weights, call, args, pass,
                   iter, savedGrad, loopMode, retval, stepOps, passOutputs,
                   snapLog, iterated, grad0>>

\* The range is exhausted: callbacks.on_train_end() and fit returns.
FitTrainEnd_silent ==
    /\ pc = "epoch_loop" /\ loopEpoch >= args.epochs
    /\ pc' = "done"
    /\ outcome' = "ok"
    /\ UNCHANGED <<is_train, epoch, num_epochs, step, ep_size, verbose,
                   train_loss, train_metrics, val_loss, val_metrics, heap,
                   modelMode, gradEnabled, cbKind, callbacks, injected, unet,
                   weights, call, args, loopEpoch, pass, iter, savedGrad,
                   loopMode, raisedIn, retval, trace, hookCalls, stepOps,
                   passOutputs, snapLog, iterated, hookWrote, grad0>>
FitTrainEnd ==
    /\ pc = "epoch_loop" /\ loopEpoch >= args.epochs
    /\ Broadcast("on_train_end", epoch, step, is_train, FALSE, FALSE, "done", "ok")
    /\ UNCHANGED <<epoch, num_epochs, step, ep_size, verbose, train_loss,
                   train_metrics, val_loss, val_metrics, heap, modelMode,
                   cbKind, callbacks, injected, unet, weights, call, args,
                   loopEpoch, pass, iter, savedGrad, loopMode, retval, stepOps,
                   passOutputs, snapLog, iterated, grad0>>

\* ------------------------------------------------------------ specification
ValLoaders == Loaders \cup {NoLoader}

Next ==
    \/ /\ pc = "idle"
       /\ \E l \in Loaders, s \in StepArgs, vl \in ValLoaders, vs \in StepArgs,
             e \in 0..MaxEpochs, se \in 0..MaxEpochs :
               FitCall(l, s, vl, vs, e, se)
    \/ /\ pc = "idle"
       /\ \E l \in Loaders, s \in StepArgs : EvaluateCall(l, s)
    \/ FitEpochBegin
    \/ FitTrainPass
    \/ BatchBegin
    \/ MakeStep
    \/ BatchEnd
    \/ LoopExit
    \/ FitSnapshotTrain
    \/ FitValidate
    \/ EvaluateReturn
    \/ FitEpochEnd
    \/ FitTrainEnd

Spec == Init /\ [][Next]_vars

\* ------------------------------------------------- several callbacks at once
\* Callback lists: none at all, or NumCallbacks callbacks that implement every
\* hook except, possibly, one of them that implements the epoch hooks only.
CallbackLists ==
    {<< >>} \cup
    {[i \in 1..NumCallbacks |-> IF i = skip THEN EpochHooks ELSE AllHooks] :
        skip \in 0..NumCallbacks}

\* A quiet Runner whose callbacks leave is_train alone.
InitCallbacks ==
    /\ is_train = TRUE
    /\ verbose = FALSE
    /\ gradEnabled = TRUE
    /\ cbKind = "passive"
    /\ callbacks \in CallbackLists
    /\ unet = NoUnet
    /\ Construct

SpecCallbacks == InitCallbacks /\ [][Next]_vars

\* ------------------------------------------------------------ Unet decoder
\* The encoder hands the decoder its head and four skip connections.
EncoderStages == 5

\* Feature maps, by identity; what a block computes from a feature map is
\* another feature map, none of the encoder's.
Features == 1..MaxFeature
Block(x) == x + MaxFeature

\* UnetCenterBlock.forward: self.block(x) is evaluated and dropped; without a
\* return statement the call yields None.
UnetCenterBlock(x) == LET y == Block(x) IN None

\* UnetDecoder(center=...) about to run forward(x) on the encoder's features.
UnetInputs ==
    {[center |-> c, head |-> x[1], skips |-> Tail(x), encoder_head |-> None,
      layer1_in |-> << >>, at |-> "forward"] :
        c \in BOOLEAN, x \in [1..EncoderStages -> Features]}

runnerVars == <<is_train, epoch, num_epochs, step, ep_size, verbose,
                train_loss, train_metrics, val_loss, val_metrics, heap,
                modelMode, gradEnabled, cbKind, weights, pc, call, args,
                loopEpoch, pass, iter, savedGrad, loopMode, outcome, retval,
                trace, stepOps, passOutputs, snapLog, iterated, hookWrote,
                grad0, callbacks, injected, hookCalls, raisedIn>>

\* encoder_head = x[0]; skips = x[1:]
DecoderHead ==
    /\ unet.at = "forward"
    /\ unet' = [unet EXCEPT !.encoder_head = unet.head, !.at = "center"]
    /\ UNCHANGED runnerVars

\* if self.center: encoder_head = self.center(encoder_head)
DecoderCenter ==
    /\ unet.at = "center"
    /\ unet' = [unet EXCEPT
                  !.encoder_head = IF unet.center THEN UnetCenterBlock(@) ELSE @,
                  !.at = "layer1"]
    /\ UNCHANGED runnerVars

\* x = self.layer1([encoder_head, skips[0]]): what the first layer is fed.
DecoderLayer1 ==
    /\ unet.at = "layer1"
    /\ unet' = [unet EXCEPT !.layer1_in = <<unet.encoder_head, unet.skips[1]>>,
                            !.at = "layers"]
    /\ UNCHANGED runnerVars

InitUnet ==
    /\ is_train = TRUE
    /\ verbose = TRUE
    /\ gradEnabled = TRUE
    /\ cbKind = "passive"
    /\ callbacks = << >>
    /\ unet \in UnetInputs
    /\ Construct

NextUnet == DecoderHead \/ DecoderCenter \/ DecoderLayer1

SpecUnet == InitUnet /\ [][NextUnet]_vars

\* ================================================================ properties
Min(a, b) == IF a < b THEN a ELSE b
Max(a, b) == IF a > b THEN a ELSE b

EventsOf(name) == SelectSeq(trace, LAMBDA e : e.ev = name)
\* Events name of the pass p of epoch index ep.
PassEvents(name, ep, p) ==
    SelectSeq(trace, LAMBDA e : e.ev = name /\ e.epoch = ep /\ e.pass = p)

FitReturned == call = "fit" /\ pc = "done" /\ outcome = "ok"
FitRaised == call = "fit" /\ pc = "done" /\ outcome = "error"
EpochsToRun == Max(0, args.epochs - args.start_epoch)

\* C1: with an explicit step count S below the length L of the training source
\* and no validation source, a training pass that ends has broadcast exactly
\* min(S, L) on_batch_begin and min(S, L) on_batch_end events (stated here for
\* S >= 1, where S is the effective epoch size).
C1_TruncatedAtSteps ==
    (/\ call = "fit" /\ pc = "snap_train"
     /\ args.val_loader = NoLoader
     /\ args.loader.hasLen
     /\ args.steps >= 1 /\ args.steps < args.loader.n)
    => /\ Len(PassEvents("on_batch_begin", epoch, "train")) = Min(args.steps, args.loader.n)
       /\ Len(PassEvents("on_batch_end", epoch, "train")) = Min(args.steps, args.loader.n)

UsesOptimizer(ops) == \E i \in 1..Len(ops) : ops[i].op \in OptimizerOps
InEvaluate == call = "evaluate" \/ pass = "val"

\* C2 as stated: whatever the callbacks do, no step of an evaluate pass calls
\* optimizer.zero_grad() or optimizer.step().
C2_EvaluateNeverUsesOptimizer == InEvaluate => ~UsesOptimizer(stepOps)

HookSetTrain == hookWrote /\ cbKind = "sets_train"

\* C2 amended: as long as no callback hook has set is_train to True since
\* evaluate set it to False, no step of the evaluate pass calls
\* optimizer.zero_grad() or optimizer.step(), whatever is_train was before.
C2_EvaluateUsesNoOptimizerUnlessHookWrites ==
    (InEvaluate /\ ~HookSetTrain) => ~UsesOptimizer(stepOps)

C2_Witness ==
    /\ call = "evaluate" /\ pc = "on_batch_end" /\ step = 1
    /\ ~HookSetTrain /\ weights = 0
    /\ Len(stepOps) > 0

\* C3: every snapshot object written so far (train_loss, train_metrics,
\* val_loss, val_metrics of any epoch) still holds the sum, count and average
\* it was written with, through all later meter resets and updates.
C3_SnapshotsKeepValues == \A s \in snapLog : heap[s.ref] = s.val

C3_Witness ==
    /\ pc = "on_batch_end" /\ pass = "val"
    /\ \E s \in snapLog, t \in snapLog :
          /\ s.kind = "train_loss" /\ t.kind = "val_loss"
          /\ s.epoch + 1 = epoch /\ t.epoch + 1 = epoch
          /\ s.val.count > 0 /\ t.val.count > 0
          /\ heap[loss_meter] # s.val /\ heap[loss_meter] # t.val

\* C4: a pass over a source without a length and with no step count raises
\* before the source is iterated: no batch event of that pass is broadcast, no
\* step runs, and a call that starts such a pass does not return normally.
C4_NoLengthFailsBeforeAnyBatch ==
    /\ (pass # "none" /\ PassSteps = None /\ ~PassLoader.hasLen)
        => /\ pc = "done" /\ outcome = "error"
           /\ ~iterated
           /\ stepOps = << >> /\ passOutputs = << >>
           /\ Len(PassEvents("on_batch_begin", epoch, pass)) = 0
    /\ (pc = "done" /\ outcome = "ok" /\ args.steps = None /\ ~args.loader.hasLen)
        => (call = "fit" /\ EpochsToRun = 0)

C4_Witness ==
    /\ call = "fit" /\ pass = "train" /\ pc = "done"
    /\ args.steps = None /\ ~args.loader.hasLen
    /\ Len(trace) = 2

Last(seq) == seq[Len(seq)]
SnapsOf(ep, kinds) == {s \in snapLog : s.epoch = ep /\ s.kind \in kinds}
TrainKinds == {"train_loss", "train_metrics"}
ValKinds == {"val_loss", "val_metrics"}

\* fit raised while an epoch was in progress: after its on_epoch_begin was
\* broadcast and before its on_epoch_end was.
FailedInEpoch ==
    /\ FitRaised
    /\ Len(trace) > 0
    /\ Last(trace).ev \in {"on_epoch_begin", "on_batch_begin", "on_batch_end"}

\* C5 as stated: when fit raises during an epoch, none of train_loss,
\* train_metrics, val_loss, val_metrics has been written for that epoch.
C5_NoSnapshotOfFailedEpoch ==
    FailedInEpoch => SnapsOf(epoch, TrainKinds \cup ValKinds) = {}

\* C5 amended: once fit has raised, no lifecycle event is broadcast and no
\* snapshot is written any more; the failed epoch has no on_epoch_end and the
\* call no on_train_end; a failure up to the end of the training pass leaves
\* the epoch without train_loss/train_metrics, and a failure in the validation
\* pass leaves it without val_loss/val_metrics but with the train_loss and
\* train_metrics written before validation began.
C5_FailureAbortsFit ==
    /\ [](FailedInEpoch =>
            /\ \A i \in 1..Len(trace) :
                  /\ trace[i].ev # "on_train_end"
                  /\ trace[i].ev = "on_epoch_end" => trace[i].epoch # epoch
            /\ pass # "val" => SnapsOf(epoch, TrainKinds \cup ValKinds) = {}
            /\ pass = "val" =>
                  /\ SnapsOf(epoch, ValKinds) = {}
                  /\ Cardinality(SnapsOf(epoch, TrainKinds)) = 1 + NumMetrics)
    /\ [][outcome = "error" => (trace' = trace /\ snapLog' = snapLog)]_vars

C5_Witness ==
    /\ FailedInEpoch /\ pass = "val" /\ iterated
    /\ epoch = 1
    /\ Last(trace).ev = "on_batch_begin"
    /\ Len(stepOps) > 0

\* C6: the epoch indices seen at successive on_epoch_begin events are
\* start_epoch, start_epoch + 1, ... without gap or repeat, never beyond
\* epochs - 1, and all of them once fit has returned; each on_epoch_end sees the
\* index its on_epoch_begin saw.
C6_EpochIndexCoversRange ==
    call = "fit" =>
        LET B == EventsOf("on_epoch_begin")
            E == EventsOf("on_epoch_end")
        IN /\ \A i \in 1..Len(B) : B[i].epoch = args.start_epoch + i - 1
           /\ Len(B) <= EpochsToRun
           /\ Len(E) <= Len(B)
           /\ \A i \in 1..Len(E) : E[i].epoch = B[i].epoch
           /\ FitReturned => (Len(B) = EpochsToRun /\ Len(E) = EpochsToRun)

C6_Witness ==
    /\ FitReturned /\ EpochsToRun = 2
    /\ Len(EventsOf("on_epoch_end")) = 2

\* C7: a fit that returns has broadcast on_train_begin once, as the first
\* event, on_train_end once, as the last event, and for every epoch index in
\* [start_epoch, epochs - 1] one on_epoch_begin and one on_epoch_end, and no
\* others; with start_epoch >= epochs that is no epoch event at all.
C7_OneTrainPairAndOnePairPerEpoch ==
    FitReturned =>
        /\ Len(trace) >= 2
        /\ trace[1].ev = "on_train_begin"
        /\ Last(trace).ev = "on_train_end"
        /\ Len(EventsOf("on_train_begin")) = 1
        /\ Len(EventsOf("on_train_end")) = 1
        /\ Len(EventsOf("on_epoch_begin")) = EpochsToRun
        /\ Len(EventsOf("on_epoch_end")) = EpochsToRun
        /\ \A k \in args.start_epoch..(args.epochs - 1) :
              /\ Len(PassEvents("on_epoch_begin", k, "none")) = 1
              /\ Len(PassEvents("on_epoch_end", k, "none")) = 1

C7_Witness ==
    /\ FitReturned
    /\ args.start_epoch >= args.epochs /\ args.epochs > 0
    /\ Len(trace) = 2

\* The nesting of the lifecycle events, as an automaton over the trace.
NestStep(q, e) ==
    CASE q = "start" /\ e.ev = "on_train_begin" -> "between"
      [] q = "between" /\ e.ev = "on_epoch_begin" -> "train"
      [] q = "train" /\ e.ev = "on_batch_begin" /\ e.pass = "train" -> "train_batch"
      [] q = "train_batch" /\ e.ev = "on_batch_end" /\ e.pass = "train" -> "train"
      [] q \in {"train", "val"} /\ e.ev = "on_batch_begin" /\ e.pass = "val"
            /\ args.val_loader # NoLoader -> "val_batch"
      [] q = "val_batch" /\ e.ev = "on_batch_end" /\ e.pass = "val" -> "val"
      [] q \in {"train", "val"} /\ e.ev = "on_epoch_end" -> "between"
      [] q = "between" /\ e.ev = "on_train_end" -> "end"
      [] OTHER -> "bad"

RECURSIVE NestRun(_, _)
NestRun(q, seq) == IF seq = << >> THEN q ELSE NestRun(NestStep(q, Head(seq)), Tail(seq))

\* C8: the events of a fit that returns are nested as on_train_begin, then per
\* epoch on_epoch_begin, the training pass's batch pairs, the validation
\* pass's batch pairs (only with a validation source), on_epoch_end, and at
\* last on_train_end; each on_batch_begin is directly followed by the
\* on_batch_end of the same batch.
C8_EventsWellNested ==
    FitReturned =>
        /\ NestRun("start", trace) = "end"
        /\ \A i \in 1..Len(trace) :
              trace[i].ev = "on_batch_begin" =>
                  /\ i < Len(trace)
                  /\ trace[i + 1] = [trace[i] EXCEPT !.ev = "on_batch_end"]

C8_Witness ==
    /\ FitReturned /\ EpochsToRun = 2
    /\ args.val_loader # NoLoader
    /\ Len(PassEvents("on_batch_end", 1, "train")) = 2
    /\ Len(PassEvents("on_batch_end", 1, "val")) = 2

RECURSIVE SumSeq(_)
SumSeq(seq) == IF seq = << >> THEN 0 ELSE Head(seq) + SumSeq(Tail(seq))
Mean(seq) == IF seq = << >> THEN <<0, 1>> ELSE Div(SumSeq(seq), Len(seq))

\* evaluate has just returned: to its caller, or to fit before on_epoch_end.
EvaluateReturned ==
    \/ call = "evaluate" /\ pc = "done" /\ outcome = "ok"
    \/ call = "fit" /\ pc = "on_epoch_end" /\ args.val_loader # NoLoader
EvalLoader == IF call = "fit" THEN args.val_loader ELSE args.loader
EvalSteps == IF call = "fit" THEN args.val_steps ELSE args.steps

\* C9: what evaluate returns is the mean loss and, metric by metric in
\* declaration order, the mean metric value over the batches stepped in that
\* evaluate call and over nothing else; without a step cap these are all n
\* batches of the source.
C9_EvaluateReturnsMeansOfItsPass ==
    EvaluateReturned =>
        /\ retval =
              <<Mean([i \in 1..Len(passOutputs) |-> LossValue(passOutputs[i])]),
                [j \in 1..NumMetrics |->
                    Mean([i \in 1..Len(passOutputs) |-> MetricValue(j, passOutputs[i])])]>>
        /\ EvalSteps = None => Len(passOutputs) = EvalLoader.n

C9_Witness ==
    /\ call = "fit" /\ pc = "on_epoch_end"
    /\ args.val_loader # NoLoader /\ args.val_steps = None
    /\ Len(passOutputs) = 2
    /\ heap[train_loss].count = 2
    /\ heap[train_loss].sum # heap[val_loss].sum

\* C10: inside the loop of _run_one_epoch the gradient flag has the value
\* is_train had when the loop was entered (True in a training pass and False
\* in a validation pass when no hook wrote is_train); outside the loop, after
\* a normal exit and after a raise in a step or a hook, it has the value it
\* had before.
C10_GradFlagScopedToLoop ==
    /\ InLoop => /\ gradEnabled = loopMode
                 /\ cbKind = "passive" => loopMode = (pass = "train")
    /\ ~InLoop => gradEnabled = grad0

C10_Witness ==
    /\ pc = "done" /\ outcome = "error"
    /\ iterated /\ pass = "train"
    /\ loopMode # grad0
    /\ Len(trace) > 2

\* C12: in a pass ep_size is the explicit step count whenever one was given,
\* 0 included, and the length of the source only when none was given.
C12_EpSizeIsExplicitSteps ==
    InLoop => ep_size = (IF PassSteps # None THEN PassSteps ELSE PassLoader.n)

\* The callbacks the latest broadcast called are called once each, in
\* registration order, and each implements the hook of that event.
CalledInOrder ==
    /\ \A p, q \in 1..Len(hookCalls) : p < q => hookCalls[p] < hookCalls[q]
    /\ \A p \in 1..Len(hookCalls) :
          /\ hookCalls[p] \in 1..Len(callbacks)
          /\ Last(trace).ev \in callbacks[hookCalls[p]]
WasCalled(i) == \E p \in 1..Len(hookCalls) : hookCalls[p] = i

\* C11 as stated: the run state is injected once, before any event, and every
\* event calls the hook of every registered callback that implements it,
\* once, in registration order, and of no other callback.
C11_EveryImplementerCalledOnce ==
    /\ injected = 1
    /\ trace = << >> => hookCalls = << >>
    /\ trace # << >> =>
          /\ CalledInOrder
          /\ \A i \in 1..Len(callbacks) : Last(trace).ev \in callbacks[i] => WasCalled(i)

\* C11: the run state is injected exactly once, before any event is
\* broadcast; every event calls the hook of each registered callback that
\* implements it, once and in registration order, skipping the callbacks that
\* do not, up to the first hook that raises: the implementing callbacks
\* registered after a raising hook are not called for that event.
C11_ImplementersCalledUpToRaise ==
    /\ injected = 1
    /\ trace = << >> => hookCalls = << >>
    /\ trace # << >> =>
          /\ CalledInOrder
          /\ \A i \in 1..Len(callbacks) :
                (Last(trace).ev \in callbacks[i] /\ ~WasCalled(i)) =>
                    /\ raisedIn = "hook" /\ pc = "done" /\ outcome = "error"
                    /\ hookCalls # << >> /\ i > Last(hookCalls)

C11_Witness ==
    /\ Len(callbacks) = 2 /\ callbacks[1] = EpochHooks
    /\ FitReturned
    /\ hookCalls = <<2>>
    /\ \E i \in 1..Len(trace) : trace[i].ev = "on_epoch_end"
    /\ \E i \in 1..Len(trace) : trace[i].ev = "on_batch_end"

\* C13: verbose changes the readout only, so a call ends as it does with
\* verbose=False, where the only errors are those a hook, a step or len() of
\* the source raises, and a pass whose len() succeeded goes on to fetch from
\* its source.
C13_VerboseOnlyReadout ==
    /\ (pc = "done" /\ outcome = "error") => raisedIn \in {"hook", "step", "len"}
    /\ (pass # "none" /\ ep_size # None /\ raisedIn # "len") => iterated

\* What C13 says of the quiet Runner, where it is true.
C13_QuietRunner == ~verbose => C13_VerboseOnlyReadout

\* A source of fit exposes a length, or the pass has an explicit step count
\* (of at least one step).
Sized(loader, steps) == loader.hasLen \/ (steps # None /\ steps >= 1)
SourcesSized ==
    /\ Sized(args.loader, args.steps)
    /\ args.val_loader # NoLoader => Sized(args.val_loader, args.val_steps)

\* C19: a fit call over sized sources in which no hook and no step raised
\* does not end in an error: when it has ended, it has returned, and
\* on_train_end was the last event it broadcast.
C19_FitReturnsAfterTrainEnd ==
    (call = "fit" /\ pc = "done" /\ SourcesSized /\ raisedIn \notin {"hook", "step"}) =>
        /\ outcome = "ok"
        /\ trace # << >> /\ Last(trace).ev = "on_train_end"

\* What C19 says of the quiet Runner, where it is true.
C19_QuietRunner == ~verbose => C19_FitReturnsAfterTrainEnd

\* The order C14 gives for a step: the calls by name, then for each metric in
\* declaration order the metric and the update of its meter.
OpNames(ops) == [i \in 1..Len(ops) |-> ops[i].op]
MetricPart ==
    [i \in 1..(2 * NumMetrics) |->
        [op |-> IF i % 2 = 1 THEN "metric" ELSE "meter_update", j |-> (i + 1) \div 2]]
TrainingOrder ==
    <<"forward", "criterion", "zero_grad", "scale_enter", "backward",
      "scale_exit", "optimizer_step", "synchronize", "loss_update">>
EvaluationOrder == <<"forward", "criterion", "loss_update">>
StepOrder(train) == IF train THEN TrainingOrder ELSE EvaluationOrder
IsPrefix(a, b) == Len(a) <= Len(b) /\ SubSeq(b, 1, Len(a)) = a
StepCompleted == pc = "on_batch_end"
StepRaised == pc = "done" /\ raisedIn = "step"

\* C14: a completed training step has run forward, criterion, zero_grad,
\* entry of the scaling scope, backward, exit of the scaling scope, optimizer
\* step, synchronize, loss-meter update and the metric-meter updates, in
\* this order; a completed evaluation step has run forward, criterion, the
\* loss-meter update and the metric-meter updates only; a step that raised
\* has run a proper prefix of that order.
C14_StepOperationOrder ==
    LET head == StepOrder(is_train)
        n == Len(head)
    IN
    /\ StepCompleted =>
          /\ Len(stepOps) = n + 2 * NumMetrics
          /\ OpNames(SubSeq(stepOps, 1, n)) = head
          /\ SubSeq(stepOps, n + 1, Len(stepOps)) = MetricPart
    /\ StepRaised =>
          /\ Len(stepOps) < n + 2 * NumMetrics
          /\ Len(stepOps) <= n => IsPrefix(OpNames(stepOps), head)
          /\ Len(stepOps) > n =>
                /\ OpNames(SubSeq(stepOps, 1, n)) = head
                /\ IsPrefix(SubSeq(stepOps, n + 1, Len(stepOps)), MetricPart)

C14_Witness ==
    /\ StepCompleted /\ is_train /\ pass = "train"
    /\ Len(stepOps) = 9 + 2 * NumMetrics
    /\ \E i \in 1..Len(trace) : trace[i].pass = "val" /\ trace[i].ev = "on_batch_end"

\* A meter that has seen exactly the values vals since its reset.
SeenMeter(vals) == [sum |-> SumSeq(vals), count |-> Len(vals), avg |-> Mean(vals)]
LossSeen == SeenMeter([i \in 1..Len(passOutputs) |-> LossValue(passOutputs[i])])
MetricSeen(j) == SeenMeter([i \in 1..Len(passOutputs) |-> MetricValue(j, passOutputs[i])])

\* fit has just written the train snapshots; fit is about to broadcast
\* on_epoch_end.
AfterTrainSnapshot ==
    call = "fit" /\ (pc = "validate" \/ (pc = "on_epoch_end" /\ args.val_loader = NoLoader))
AtEpochEnd == call = "fit" /\ pc = "on_epoch_end"
Refs(snaps) == {s.ref : s \in snaps}

\* C15: the train snapshots are written with the meter values of the end of
\* the epoch's training pass; at on_epoch_end of an epoch with a validation
\* pass they still hold those values (as many observations as the training
\* pass had batches) while val_loss/val_metrics hold the meter values of the
\* end of the validation pass; a fit without a validation source leaves
\* val_loss and val_metrics unwritten.
C15_SnapshotsAtEpochEnd ==
    /\ AfterTrainSnapshot =>
          /\ heap[train_loss] = LossSeen
          /\ \A j \in 1..NumMetrics : heap[train_metrics[j]] = MetricSeen(j)
    /\ (AtEpochEnd /\ args.val_loader # NoLoader) =>
          /\ heap[val_loss] = LossSeen
          /\ \A j \in 1..NumMetrics : heap[val_metrics[j]] = MetricSeen(j)
          /\ train_loss \in Refs(SnapsOf(epoch, {"train_loss"}))
          /\ \A j \in 1..NumMetrics :
                train_metrics[j] \in Refs(SnapsOf(epoch, {"train_metrics"}))
          /\ \A s \in SnapsOf(epoch, TrainKinds) :
                /\ heap[s.ref] = s.val
                /\ s.val.count = Len(PassEvents("on_batch_end", epoch, "train"))
    /\ (call = "fit" /\ args.val_loader = NoLoader) =>
          val_loss = None /\ val_metrics = << >>

C15_Witness ==
    /\ AtEpochEnd /\ args.val_loader # NoLoader
    /\ heap[train_loss].count = 2 /\ heap[val_loss].count = 1
    /\ heap[train_metrics[1]].avg # heap[val_metrics[1]].avg
    /\ epoch = 1

\* C16: in a pass every meter holds exactly one observation per batch
\* stepped since the reset at the start of the pass: none before the first
\* on_batch_begin, step between a batch's on_batch_begin and its step, and
\* step + 1 at its on_batch_end, where the meters hold the values of exactly
\* the batches processed so far in this pass.
C16_OneUpdatePerBatchSinceReset ==
    /\ (pc = "loop" /\ iter = 0) => \A i \in MeterIds : heap[i] = NewMeter
    /\ pc = "loop" => \A i \in MeterIds : heap[i].count = iter
    /\ pc = "make_step" => \A i \in MeterIds : heap[i].count = step
    /\ pc = "on_batch_end" =>
          /\ \A i \in MeterIds : heap[i].count = step + 1
          /\ Len(passOutputs) = step + 1
    /\ pc \in {"loop", "make_step", "on_batch_end"} =>
          /\ heap[loss_meter] = LossSeen
          /\ \A j \in 1..NumMetrics : heap[metric_meters[j]] = MetricSeen(j)

C16_Witness ==
    /\ pc = "on_batch_end" /\ call = "fit" /\ pass = "val"
    /\ step = 0 /\ heap[loss_meter].count = 1
    /\ Len(PassEvents("on_batch_end", epoch, "train")) = 2

\* Within a pass the step index counts the batches from 0: at a batch's hooks
\* it is the number of batches of this pass begun before it.
C17_StepsConsecutive ==
    pc \in {"make_step", "on_batch_end"} =>
        /\ Last(trace).ev = "on_batch_begin"
        /\ Last(trace).step = step
        /\ \E k \in 1..Len(trace) :
              /\ \A i \in k..Len(trace) :
                    /\ trace[i].pass = pass
                    /\ trace[i].ev \in {"on_batch_begin", "on_batch_end"}
                    /\ trace[i].step = (i - k) \div 2
              /\ trace[k].ev = "on_batch_begin"
              /\ k > 1 => ~(trace[k - 1].pass = pass /\ trace[k - 1].epoch = trace[k].epoch
                            /\ trace[k - 1].ev \in {"on_batch_begin", "on_batch_end"})

\* C17: at every on_batch_begin and on_batch_end the step index is below the
\* ep_size of the pass, and within a pass it runs 0, 1, 2, ... from 0.
C17_StepBelowEpSize ==
    /\ pc \in {"make_step", "on_batch_end"} => step < ep_size
    /\ C17_StepsConsecutive

\* The hook just broadcast, in a fit whose callbacks leave is_train alone.
PassiveFit == call = "fit" /\ cbKind = "passive"
AfterEpochBegin == PassiveFit /\ pc = "train_pass"
AfterBatchHook == PassiveFit /\ (pc = "make_step" \/ (pc = "loop" /\ iter > 0))
AfterEpochEnd ==
    PassiveFit /\ pc = "epoch_loop" /\ trace # << >> /\ Last(trace).ev = "on_epoch_end"
AfterTrainEnd == PassiveFit /\ FitReturned

\* C18 as stated: is_train is True at on_epoch_begin and at the batch hooks
\* of a training pass, False at the batch hooks of a validation pass, and at
\* on_epoch_end and on_train_end False exactly when a validation pass ran in
\* the last executed epoch.
C18_IsTrainAtHooks ==
    /\ AfterEpochBegin => is_train
    /\ AfterBatchHook => is_train = (pass = "train")
    /\ AfterEpochEnd => (~is_train <=> args.val_loader # NoLoader)
    /\ AfterTrainEnd => (~is_train <=> (args.val_loader # NoLoader /\ EpochsToRun > 0))

\* C18: as above, where at on_train_end the flag is False exactly when a
\* validation pass ran in the last executed epoch provided fit executed at
\* least one epoch.
C18_IsTrainAtHooksOfEpochs ==
    /\ AfterEpochBegin => is_train
    /\ AfterBatchHook => is_train = (pass = "train")
    /\ AfterEpochEnd => (~is_train <=> args.val_loader # NoLoader)
    /\ (AfterTrainEnd /\ EpochsToRun > 0) => (~is_train <=> args.val_loader # NoLoader)

C18_Witness ==
    /\ AfterTrainEnd /\ EpochsToRun = 2
    /\ args.val_loader # NoLoader /\ ~is_train
    /\ \E i \in 1..Len(trace) : trace[i].pass = "val" /\ trace[i].ev = "on_batch_end"
    /\ \E i \in 1..Len(trace) : trace[i].pass = "train" /\ trace[i].ev = "on_batch_begin"

\* C20: the first decoder layer is fed the first skip connection together
\* with the output of the center block on the encoder head, a feature map,
\* when the decoder has a center block, and with the encoder head itself when
\* it has none.
C20_CenterOutputFedToLayer1 ==
    unet.at = "layers" =>
        /\ unet.layer1_in =
              <<IF unet.center THEN Block(unet.head) ELSE unet.head, unet.skips[1]>>
        /\ unet.layer1_in[1] # None

\* What C20 says of a decoder without a center block, where it is true.
C20_NoCenter == ~unet.center => C20_CenterOutputFedToLayer1

====
